---------------------------- MODULE Spec2Model ----------------------------
(***************************************************************************)
(* A model of FusedRwLock<T> (src/src/lib.rs): a reader-writer lock that   *)
(* may be write-locked any number of times and, once locked for reading,   *)
(* stays readable without synchronisation.                                 *)
(*                                                                         *)
(* Granularity: one step per atomic operation of the code (a load or a    *)
(* store of `locked`, an acquisition or a release of `inner`, one access   *)
(* to `object`).  A load of the atomic flag returns the latest value in    *)
(* its modification order; the memory orderings (Relaxed, Acquire,         *)
(* Release) and the acquire/release of `inner` decide which writes to the  *)
(* non-atomic `object` happen-before a thread's access.  An access to      *)
(* `object` that is not ordered after the last write is a data race and    *)
(* reads an arbitrary value.                                               *)
(***************************************************************************)
EXTENDS Integers, FiniteSets

NumThreads == 2
MaxVal == 1
MaxCalls == 1

Threads == 1..NumThreads
Values == 0..MaxVal

VARIABLES
    locked,     \* FusedRwLock.locked : AtomicBool
    object,     \* FusedRwLock.object : UnsafeCell<T>
    writer,     \* FusedRwLock.inner : the thread holding it exclusively ({} if none)
    readers,    \* FusedRwLock.inner : the threads holding it shared
    pc,         \* where each thread is inside the method it is running
    caller,     \* "read" while lock() runs on behalf of read(), else "none"
    guard,      \* the threads owning a FusedRwLockGuard
    refs,       \* the threads owning a &T handed out by try_read / read
    owner,      \* the &mut T obtained through &mut self: "none", "safe", "unsafe"
    ev,         \* the step just taken: the thread, the method, what it returned
    stale,      \* the threads whose view does not include the last write to object
    lockStale,  \* whether the view released into `inner` misses the last write
    flagStale,  \* whether the view released by the last store to `locked` misses it
    hist        \* history of the run, read by the properties; its field
                \* calls bounds the calls of a thread in LiveSpec

vars == <<locked, object, writer, readers, pc, caller, guard, refs, owner,
          ev, stale, lockStale, flagStale, hist>>

shared == <<locked, object, writer, readers>>
views == <<stale, lockStale, flagStale>>

\* A method returning: the thread (0 for the owner by &mut), the method, the
\* shape of the result, the payload value read or written.
Ret(t, op, res, val) == [t |-> t, op |-> op, res |-> res, val |-> val]

\* A step inside a method, or the end of a borrow: nothing is returned.
Step == Ret(0, "step", "none", {})

\* FusedRwLock::new(x): unlocked inner lock, flag false, the given payload.
Init ==
    /\ locked = FALSE
    /\ object \in Values
    /\ writer = {}
    /\ readers = {}
    /\ pc = [t \in Threads |-> "idle"]
    /\ caller = [t \in Threads |-> "none"]
    /\ guard = {}
    /\ refs = {}
    /\ owner = "none"
    /\ ev = Step
    /\ stale = {}
    /\ lockStale = FALSE
    /\ flagStale = FALSE
    /\ hist = [fuseCalled |-> FALSE, fuseReturned |-> FALSE, sawTrue |-> {},
               everRef |-> FALSE, frozen |-> {}, prevLeft |-> object,
               dirty |-> FALSE, calls |-> [t \in Threads |-> 0]]

----------------------------------------------------------------------------
(* Memory model helpers *)

\* self.locked.load(_): the latest value of the flag.
is_locked == locked

\* An acquire operation by t that reads from a release whose view is srcStale.
Acquire(t, srcStale) == IF srcStale THEN stale ELSE stale \ {t}

\* The values a read of *object by t may yield: the payload, or anything when
\* the last write does not happen-before the read (a data race).
ReadObject(t) == IF t \in stale THEN Values ELSE {object}

\* Can t start a method: it is between calls, and nobody owns the lock by &mut.
CanCall(t) == pc[t] = "idle" /\ owner = "none"

Goto(t, l) ==
    /\ pc' = [pc EXCEPT ![t] = l]
    /\ ev' = Step
Return(t, op, res, val) ==
    /\ pc' = [pc EXCEPT ![t] = "idle"]
    /\ ev' = Ret(t, op, res, val)

----------------------------------------------------------------------------
(* is_locked(&self), lines 72-74 *)

IsLocked(t) ==
    /\ CanCall(t)
    /\ Return(t, "is_locked", IF is_locked THEN "true" ELSE "false", {})
    /\ hist' = [hist EXCEPT !.sawTrue = IF is_locked THEN @ \cup {t} ELSE @]
    /\ UNCHANGED <<shared, views, caller, guard, refs, owner>>

----------------------------------------------------------------------------
(* lock(&self), lines 80-84 *)

CallLock(t) ==
    /\ CanCall(t)
    /\ Goto(t, "lock_acq")
    /\ hist' = [hist EXCEPT !.fuseCalled = TRUE]
    /\ UNCHANGED <<shared, views, caller, guard, refs, owner>>

\* Mutant: the shared acquisition does not wait for the writer.
LockAcquire_NoWait(t) ==
    /\ pc[t] = "lock_acq"
    /\ readers' = readers \cup {t}
    /\ stale' = Acquire(t, lockStale)
    /\ Goto(t, "lock_store")
    /\ UNCHANGED <<locked, object, writer, lockStale, flagStale, caller, guard,
                   refs, owner, hist>>

\* let _guard = self.inner.read(): waits while a writer holds inner.
LockAcquire(t) ==
    /\ pc[t] = "lock_acq"
    /\ writer = {}
    /\ readers' = readers \cup {t}
    /\ stale' = Acquire(t, lockStale)
    /\ Goto(t, "lock_store")
    /\ UNCHANGED <<locked, object, writer, lockStale, flagStale, caller, guard,
                   refs, owner, hist>>

\* Mutant: the store to the flag is left out.
LockStore_NoStore(t) ==
    /\ pc[t] = "lock_store"
    /\ Goto(t, "lock_rel")
    /\ UNCHANGED <<shared, views, caller, guard, refs, owner, hist>>

\* self.locked.store(true, Release)
LockStore(t) ==
    /\ pc[t] = "lock_store"
    /\ locked' = TRUE
    /\ flagStale' = (t \in stale)
    /\ Goto(t, "lock_rel")
    /\ hist' = [hist EXCEPT !.frozen = IF locked THEN @ ELSE {object}]
    /\ UNCHANGED <<object, writer, readers, stale, lockStale, caller, guard,
                   refs, owner>>

\* Mutant: lock() returns without giving the shared lock back.
LockRelease_Leak(t) ==
    /\ pc[t] = "lock_rel"
    /\ IF caller[t] = "read"
         THEN /\ Goto(t, "rd_tryread")
              /\ caller' = [caller EXCEPT ![t] = "none"]
         ELSE /\ Return(t, "lock", "unit", {})
              /\ caller' = caller
    /\ hist' = [hist EXCEPT !.fuseReturned = TRUE]
    /\ UNCHANGED <<shared, views, guard, refs, owner>>

\* _guard goes out of scope: the shared lock is released and lock() returns,
\* to read() when read() called it.
LockRelease(t) ==
    /\ pc[t] = "lock_rel"
    /\ readers' = readers \ {t}
    /\ lockStale' = (lockStale /\ t \in stale)
    /\ IF caller[t] = "read"
         THEN /\ Goto(t, "rd_tryread")
              /\ caller' = [caller EXCEPT ![t] = "none"]
         ELSE /\ Return(t, "lock", "unit", {})
              /\ caller' = caller
    /\ hist' = [hist EXCEPT !.fuseReturned = TRUE]
    /\ UNCHANGED <<locked, object, writer, stale, flagStale, guard, refs, owner>>

----------------------------------------------------------------------------
(* try_read(&self), lines 88-97 *)

\* Mutant: try_read fuses an Open lock, as read() does.
TryRead_Fusing(t) ==
    /\ CanCall(t)
    /\ locked' = TRUE
    /\ stale' = Acquire(t, flagStale)
    /\ refs' = refs \cup {t}
    /\ Return(t, "try_read", "Some", {})
    /\ hist' = [hist EXCEPT !.everRef = TRUE]
    /\ UNCHANGED <<object, writer, readers, lockStale, flagStale, caller, guard,
                   owner>>

\* Mutant: try_read goes through inner.read(), so it waits for a writer.
TryRead_ViaInner(t) ==
    /\ CanCall(t)
    /\ writer = {}
    /\ IF locked
         THEN /\ stale' = Acquire(t, flagStale)
              /\ refs' = refs \cup {t}
              /\ Return(t, "try_read", "Some", {})
              /\ hist' = [hist EXCEPT !.everRef = TRUE]
         ELSE /\ Return(t, "try_read", "None", {})
              /\ UNCHANGED <<stale, refs, hist>>
    /\ UNCHANGED <<shared, lockStale, flagStale, caller, guard, owner>>

\* self.locked.load(Acquire), then Some(&*self.object.get()) or None.
TryRead(t) ==
    /\ CanCall(t)
    /\ IF locked
         THEN /\ stale' = Acquire(t, flagStale)
              /\ refs' = refs \cup {t}
              /\ Return(t, "try_read", "Some", {})
              /\ hist' = [hist EXCEPT !.everRef = TRUE]
         ELSE /\ Return(t, "try_read", "None", {})
              /\ UNCHANGED <<stale, refs, hist>>
    /\ UNCHANGED <<shared, lockStale, flagStale, caller, guard, owner>>

----------------------------------------------------------------------------
(* read(&self), lines 99-104 *)

\* Mutant: the test is inverted, lock() is called only when already locked.
ReadCheck_Inverted(t) ==
    /\ CanCall(t)
    /\ IF ~is_locked
         THEN /\ Goto(t, "rd_tryread")
              /\ caller' = caller
         ELSE /\ Goto(t, "lock_acq")
              /\ caller' = [caller EXCEPT ![t] = "read"]
    /\ hist' = [hist EXCEPT !.fuseCalled = TRUE,
                            !.sawTrue = IF is_locked THEN @ \cup {t} ELSE @]
    /\ UNCHANGED <<shared, views, guard, refs, owner>>

\* if !self.is_locked() { self.lock(); }
ReadCheck(t) ==
    /\ CanCall(t)
    /\ IF is_locked
         THEN /\ Goto(t, "rd_tryread")
              /\ caller' = caller
         ELSE /\ Goto(t, "lock_acq")
              /\ caller' = [caller EXCEPT ![t] = "read"]
    /\ hist' = [hist EXCEPT !.fuseCalled = TRUE,
                            !.sawTrue = IF is_locked THEN @ \cup {t} ELSE @]
    /\ UNCHANGED <<shared, views, guard, refs, owner>>

\* self.try_read().unwrap(): the reference, or a panic when try_read gave None.
ReadTryRead(t) ==
    /\ pc[t] = "rd_tryread"
    /\ IF locked
         THEN /\ stale' = Acquire(t, flagStale)
              /\ refs' = refs \cup {t}
              /\ Return(t, "read", "Some", {})
              /\ hist' = [hist EXCEPT !.everRef = TRUE, !.fuseReturned = TRUE]
         ELSE /\ Goto(t, "panicked")
              /\ UNCHANGED <<stale, refs, hist>>
    /\ UNCHANGED <<shared, lockStale, flagStale, caller, guard, owner>>

----------------------------------------------------------------------------
(* try_write(&self), lines 106-121 *)

\* Mutant: no fast path, inner is taken whatever the flag says.
TryWriteCheck_NoFastPath(t) ==
    /\ CanCall(t)
    /\ Goto(t, "tw_acq")
    /\ UNCHANGED <<shared, views, caller, guard, refs, owner, hist>>

\* if !self.is_locked() { ... } else { None }
TryWriteCheck(t) ==
    /\ CanCall(t)
    /\ IF is_locked
         THEN Return(t, "try_write", "None", {})
         ELSE Goto(t, "tw_acq")
    /\ UNCHANGED <<shared, views, caller, guard, refs, owner, hist>>

\* Mutant: inner.try_write() in place of inner.write(): None when inner is held.
TryWriteAcquire_TryLock(t) ==
    /\ pc[t] = "tw_acq"
    /\ IF writer = {} /\ readers = {}
         THEN /\ writer' = {t}
              /\ stale' = Acquire(t, lockStale)
              /\ Goto(t, "tw_recheck")
         ELSE /\ Return(t, "try_write", "None", {})
              /\ UNCHANGED <<writer, stale>>
    /\ UNCHANGED <<locked, object, readers, lockStale, flagStale, caller, guard,
                   refs, owner, hist>>

\* Mutant: the exclusive acquisition does not wait for the holder of inner.
TryWriteAcquire_NoExclusion(t) ==
    /\ pc[t] = "tw_acq"
    /\ writer' = {t}
    /\ stale' = Acquire(t, lockStale)
    /\ Goto(t, "tw_recheck")
    /\ UNCHANGED <<locked, object, readers, lockStale, flagStale, caller, guard,
                   refs, owner, hist>>

\* let guard = self.inner.write(): waits while inner is held in either mode.
TryWriteAcquire(t) ==
    /\ pc[t] = "tw_acq"
    /\ writer = {}
    /\ readers = {}
    /\ writer' = {t}
    /\ stale' = Acquire(t, lockStale)
    /\ Goto(t, "tw_recheck")
    /\ UNCHANGED <<locked, object, readers, lockStale, flagStale, caller, guard,
                   refs, owner, hist>>

\* Mutant: the recheck is inverted, the guard is given when the flag is set.
TryWriteRecheck_Inverted(t) ==
    /\ pc[t] = "tw_recheck"
    /\ IF ~is_locked
         THEN /\ Goto(t, "tw_rel")
              /\ UNCHANGED <<guard, hist>>
         ELSE /\ guard' = guard \cup {t}
              /\ Return(t, "try_write", "Some", {})
              /\ hist' = [hist EXCEPT !.dirty = FALSE]
    /\ UNCHANGED <<shared, views, caller, refs, owner>>

\* Mutant: the flag is not read again once inner is held.
TryWriteRecheck_NoRecheck(t) ==
    /\ pc[t] = "tw_recheck"
    /\ guard' = guard \cup {t}
    /\ Return(t, "try_write", "Some", {})
    /\ hist' = [hist EXCEPT !.dirty = FALSE]
    /\ UNCHANGED <<shared, views, caller, refs, owner>>

\* if !self.is_locked() { Some(FusedRwLockGuard { guard, inner }) } else { None }
TryWriteRecheck(t) ==
    /\ pc[t] = "tw_recheck"
    /\ IF is_locked
         THEN /\ Goto(t, "tw_rel")
              /\ UNCHANGED <<guard, hist>>
         ELSE /\ guard' = guard \cup {t}
              /\ Return(t, "try_write", "Some", {})
              /\ hist' = [hist EXCEPT !.dirty = FALSE]
    /\ UNCHANGED <<shared, views, caller, refs, owner>>

\* Mutant: the None branch returns with inner still held exclusively.
TryWriteRelease_Leak(t) ==
    /\ pc[t] = "tw_rel"
    /\ Return(t, "try_write", "None", {})
    /\ UNCHANGED <<shared, views, caller, guard, refs, owner, hist>>

\* The None branch drops the local `guard`: inner is released, None returned.
TryWriteRelease(t) ==
    /\ pc[t] = "tw_rel"
    /\ writer' = writer \ {t}
    /\ lockStale' = (t \in stale)
    /\ Return(t, "try_write", "None", {})
    /\ UNCHANGED <<locked, object, readers, stale, flagStale, caller, guard, refs,
                   owner, hist>>

----------------------------------------------------------------------------
(* FusedRwLockGuard, lines 124-144, and the &T of try_read / read *)

\* Deref::deref on the guard: a read of the payload.
GuardDeref(t) ==
    /\ pc[t] = "idle"
    /\ t \in guard
    /\ \E v \in ReadObject(t) : Return(t, "deref", "guard", {v})
    /\ UNCHANGED <<shared, views, caller, guard, refs, owner, hist>>

\* DerefMut::deref_mut on the guard, and an assignment through it.
GuardDerefMut(t, v) ==
    /\ pc[t] = "idle"
    /\ t \in guard
    /\ object' = v
    /\ stale' = Threads \ {t}
    /\ lockStale' = TRUE
    /\ flagStale' = TRUE
    /\ Return(t, "deref_mut", "guard", {v})
    /\ hist' = [hist EXCEPT !.dirty = TRUE]
    /\ UNCHANGED <<locked, writer, readers, caller, guard, refs, owner>>

\* Mutant: the guard goes away without releasing inner.
GuardDrop_Leak(t) ==
    /\ pc[t] = "idle"
    /\ t \in guard
    /\ guard' = guard \ {t}
    /\ Return(t, "drop", "guard", {})
    /\ hist' = [hist EXCEPT !.prevLeft = object, !.dirty = FALSE]
    /\ UNCHANGED <<shared, views, caller, refs, owner>>

\* The guard is dropped: its RwLockWriteGuard releases inner.
GuardDrop(t) ==
    /\ pc[t] = "idle"
    /\ t \in guard
    /\ guard' = guard \ {t}
    /\ writer' = writer \ {t}
    /\ lockStale' = (t \in stale)
    /\ Return(t, "drop", "guard", {})
    /\ hist' = [hist EXCEPT !.prevLeft = object, !.dirty = FALSE]
    /\ UNCHANGED <<locked, object, readers, stale, flagStale, caller, refs, owner>>

\* A read of the payload through the &T returned by try_read / read.
RefDeref(t) ==
    /\ pc[t] = "idle"
    /\ t \in refs
    /\ \E v \in ReadObject(t) : Return(t, "deref", "ref", {v})
    /\ UNCHANGED <<shared, views, caller, guard, refs, owner, hist>>

\* The &T goes out of use.
RefDrop(t) ==
    /\ pc[t] = "idle"
    /\ t \in refs
    /\ refs' = refs \ {t}
    /\ Return(t, "drop", "ref", {})
    /\ UNCHANGED <<shared, views, caller, guard, owner, hist>>

----------------------------------------------------------------------------
(* The methods taking &mut self, lines 50-64.  The borrow checker admits   *)
(* them only when no call is running and no guard or &T is alive, and      *)
(* exclusive ownership orders every earlier access before the call.        *)

Exclusive ==
    /\ owner = "none"
    /\ \A t \in Threads : pc[t] = "idle"
    /\ guard = {}
    /\ refs = {}

\* if *self.locked.get_mut() { Some(self.object.get_mut()) } else { None }
TryGetMut ==
    /\ Exclusive
    /\ IF locked
         THEN owner' = "safe" /\ ev' = Ret(0, "try_get_mut", "Some", {})
         ELSE owner' = owner /\ ev' = Ret(0, "try_get_mut", "None", {})
    /\ stale' = {}
    /\ lockStale' = FALSE
    /\ flagStale' = FALSE
    /\ UNCHANGED <<shared, pc, caller, guard, refs, hist>>

\* unsafe get_mut_unlocked: self.object.get_mut(), whatever the flag.
GetMutUnlocked ==
    /\ Exclusive
    /\ owner' = "unsafe"
    /\ ev' = Ret(0, "get_mut_unlocked", "Some", {})
    /\ stale' = {}
    /\ lockStale' = FALSE
    /\ flagStale' = FALSE
    /\ UNCHANGED <<shared, pc, caller, guard, refs, hist>>

\* An assignment through the &mut T.  A write through the unsafe override is
\* outside the contract: the history takes it as the payload's new baseline.
OwnerWrite(v) ==
    /\ owner # "none"
    /\ object' = v
    /\ ev' = Ret(0, "write", owner, {v})
    /\ hist' = IF owner = "unsafe"
                 THEN [hist EXCEPT !.prevLeft = v,
                                   !.frozen = IF locked THEN {v} ELSE @]
                 ELSE hist
    /\ UNCHANGED <<locked, writer, readers, views, pc, caller, guard, refs, owner>>

\* The &mut T goes out of use.
OwnerRelease ==
    /\ owner # "none"
    /\ owner' = "none"
    /\ ev' = Step
    /\ UNCHANGED <<shared, views, pc, caller, guard, refs, hist>>

----------------------------------------------------------------------------

Next ==
    \/ \E t \in Threads : IsLocked(t)
    \/ \E t \in Threads : CallLock(t)
    \/ \E t \in Threads : LockAcquire(t)
    \/ \E t \in Threads : LockStore(t)
    \/ \E t \in Threads : LockRelease(t)
    \/ \E t \in Threads : TryRead(t)
    \/ \E t \in Threads : ReadCheck(t)
    \/ \E t \in Threads : ReadTryRead(t)
    \/ \E t \in Threads : TryWriteCheck(t)
    \/ \E t \in Threads : TryWriteAcquire(t)
    \/ \E t \in Threads : TryWriteRecheck(t)
    \/ \E t \in Threads : TryWriteRelease(t)
    \/ \E t \in Threads : GuardDeref(t)
    \/ \E t \in Threads, v \in Values : GuardDerefMut(t, v)
    \/ \E t \in Threads : GuardDrop(t)
    \/ \E t \in Threads : RefDeref(t)
    \/ \E t \in Threads : RefDrop(t)
    \/ TryGetMut
    \/ GetMutUnlocked
    \/ \E v \in Values : OwnerWrite(v)
    \/ OwnerRelease

Spec == Init /\ [][Next]_vars

----------------------------------------------------------------------------
(* The callers of the progress property: a thread calls lock(), read() or   *)
(* try_write() only while it owns no guard, at most MaxCalls times, and     *)
(* drops every guard it gets.  Each thread that can take a step of the      *)
(* method it is in, or drop its guard, eventually does (the scheduler is    *)
(* fair to every thread).                                                   *)

CanCallLive(t) == t \notin guard /\ hist.calls[t] < MaxCalls

Counted(t) == [hist.calls EXCEPT ![t] = @ + 1]

LiveCallLock(t) ==
    /\ CanCallLive(t)
    /\ CanCall(t)
    /\ Goto(t, "lock_acq")
    /\ hist' = [hist EXCEPT !.fuseCalled = TRUE, !.calls = Counted(t)]
    /\ UNCHANGED <<shared, views, caller, guard, refs, owner>>

LiveReadCheck(t) ==
    /\ CanCallLive(t)
    /\ CanCall(t)
    /\ IF is_locked
         THEN /\ Goto(t, "rd_tryread")
              /\ caller' = caller
         ELSE /\ Goto(t, "lock_acq")
              /\ caller' = [caller EXCEPT ![t] = "read"]
    /\ hist' = [hist EXCEPT !.fuseCalled = TRUE,
                            !.sawTrue = IF is_locked THEN @ \cup {t} ELSE @,
                            !.calls = Counted(t)]
    /\ UNCHANGED <<shared, views, guard, refs, owner>>

LiveTryWriteCheck(t) ==
    /\ CanCallLive(t)
    /\ CanCall(t)
    /\ IF is_locked
         THEN Return(t, "try_write", "None", {})
         ELSE Goto(t, "tw_acq")
    /\ hist' = [hist EXCEPT !.calls = Counted(t)]
    /\ UNCHANGED <<shared, views, caller, guard, refs, owner>>

\* The steps thread t takes by itself once inside a call or owning a guard.
Run(t) ==
    \/ LockAcquire(t)
    \/ LockStore(t)
    \/ LockRelease(t)
    \/ ReadTryRead(t)
    \/ TryWriteAcquire(t)
    \/ TryWriteRecheck(t)
    \/ TryWriteRelease(t)
    \/ GuardDrop(t)

LiveNext ==
    \/ \E t \in Threads : LiveCallLock(t)
    \/ \E t \in Threads : LiveReadCheck(t)
    \/ \E t \in Threads : LiveTryWriteCheck(t)
    \/ \E t \in Threads : Run(t)

LiveSpec ==
    /\ Init
    /\ [][LiveNext]_vars
    /\ \A t \in Threads : WF_vars(Run(t))

TypeOK ==
    /\ locked \in BOOLEAN
    /\ object \in Values
    /\ writer \subseteq Threads /\ Cardinality(writer) <= 1
    /\ readers \subseteq Threads
    /\ guard \subseteq Threads
    /\ refs \subseteq Threads
    /\ owner \in {"none", "safe", "unsafe"}
    /\ stale \subseteq Threads

----------------------------------------------------------------------------
(* Properties *)

\* C1: mutual exclusion.  At most one FusedRwLockGuard exists, no &T handed
\* out by try_read / read exists together with a guard, and once a &T has been
\* handed out no guard exists then or later.
C1_MutualExclusion ==
    /\ Cardinality(guard) <= 1
    /\ refs # {} => guard = {}
    /\ hist.everRef => guard = {}

\* A &T is alive while a try_write that passed its fast path holds inner.
C1_Witness == refs # {} /\ \E t \in Threads : pc[t] = "tw_recheck"

\* C2: after some lock() or read() has returned, every try_write that returns
\* yields None, the calls that had passed their fast-path check included.
C2_NoWriteAfterFuse ==
    (ev.op = "try_write" /\ ev.res = "Some") => ~hist.fuseReturned

\* lock() has returned and a try_write past its fast path has rechecked the
\* flag and is about to give inner back and return None.
C2_Witness == hist.fuseReturned /\ \E t \in Threads : pc[t] = "tw_rel"

\* C3: the flag starts false and never goes from true to false; once lock()
\* or read() has returned, or an is_locked() has returned true, every later
\* is_locked() returns true.
C3_Latched ==
    (hist.fuseReturned \/ hist.sawTrue # {})
        => (locked /\ ~(ev.op = "is_locked" /\ ev.res = "false"))

C3_StartsFalse == ~hist.fuseCalled => ~locked

C3_MonotonicLatch ==
    /\ []C3_Latched
    /\ []C3_StartsFalse
    /\ [][locked => locked']_vars

\* After lock() returned, a second thread too has seen is_locked() true.
C3_Witness ==
    /\ hist.fuseReturned
    /\ ev.op = "is_locked" /\ ev.res = "true"
    /\ Cardinality(hist.sawTrue) > 1

\* C4: try_get_mut returns Some if the lock is Open (flag false) and None if
\* it is Fused (flag true).
C4_TryGetMut ==
    ev.op = "try_get_mut" => (ev.res = "Some" <=> ~locked)

\* C5: once the flag is true, try_read returns Some and the payload is not
\* modified again through the safe interface: every read through a &T from
\* try_read / read observes the payload as it was when the flag became true
\* (hist.frozen, which only the unsafe override moves).
C5_FrozenAfterFuse ==
    /\ locked => hist.frozen = {object}
    /\ (locked /\ ev.op = "try_read") => ev.res = "Some"
    /\ (ev.op = "deref" /\ ev.res = "ref") => ev.val = hist.frozen

\* C6: a thread that has observed is_locked() = true gets Some from its next
\* try_read, and what it reads through that &T is the value left by the last
\* write completed before the flag became true.
C6_Visibility ==
    \A b \in hist.sawTrue :
        /\ (ev.t = b /\ ev.op = "try_read") => ev.res = "Some"
        /\ (ev.t = b /\ ev.op = "deref" /\ ev.res = "ref") => ev.val = hist.frozen

\* C7 as stated: of two threads racing try_write, the one that did not get
\* the guard receives None while the guard is held, that is, its call can
\* complete: its acquisition of inner is never made to wait behind the guard.
C7_LoserGetsNone ==
    \A a \in guard : \A b \in Threads \ {a} :
        pc[b] = "tw_acq" => ENABLED TryWriteAcquire(b)

\* C7 amended: exactly one of the racing threads holds a guard, and while it
\* does the other's try_write does not return: it waits in inner.write() and
\* receives neither a guard nor None until the guard has been dropped.
C7_LoserBlocks ==
    \A a \in guard : \A b \in Threads \ {a} :
        /\ b \notin guard
        /\ pc[b] \notin {"tw_recheck", "tw_rel"}
        /\ ~(ev.t = b /\ ev.op = "try_write")
        /\ pc[b] = "tw_acq" => ~ENABLED TryWriteAcquire(b)

\* Right after construction one thread has just been given the guard and the
\* other is waiting in inner.write().
C7_Witness ==
    /\ ~hist.fuseCalled
    /\ ev.op = "try_write" /\ ev.res = "Some"
    /\ \E b \in Threads \ guard : pc[b] = "tw_acq"

\* C8: before any lock() / read() call, every try_write returns Some (and is
\* not made to wait when the previous guard was dropped and no other call is
\* running), and the value first seen through a guard is the value left by the
\* previous guard (the constructor's value for the first).
C8_SequentialWrites ==
    /\ (ev.op = "try_write" /\ ~hist.fuseCalled) => ev.res = "Some"
    /\ \A t \in Threads :
         (pc[t] = "tw_acq" /\ guard = {} /\ \A u \in Threads \ {t} : pc[u] = "idle")
             => ENABLED TryWriteAcquire(t)
    /\ (ev.op = "deref" /\ ev.res = "guard" /\ ~hist.dirty)
           => ev.val = {hist.prevLeft}

\* Before any lock() / read(), a later guard reads the payload an earlier guard
\* wrote (some thread's view is behind that write) before writing itself.
C8_Witness ==
    /\ ~hist.fuseCalled
    /\ ev.op = "deref" /\ ev.res = "guard" /\ ~hist.dirty
    /\ stale # {}

\* C9: read() never fails: its try_read() finds the flag true, so the unwrap
\* does not panic, and the flag is true when read() returns.
C9_ReadNeverFails ==
    /\ \A t \in Threads : pc[t] # "panicked"
    /\ ev.op = "read" => (ev.res = "Some" /\ locked)

\* read() has returned in one thread while another thread is inside lock()
\* or waiting in try_write.
C9_Witness ==
    /\ ev.op = "read"
    /\ \E u \in Threads \ {ev.t} : pc[u] \in {"lock_acq", "lock_store", "tw_acq"}

\* C10: lock() and read(), called any number of times from any threads, leave
\* the flag true, do not touch the payload, the guards or the exclusive side
\* of inner, and hold inner shared only between lock()'s acquisition and its
\* return.
FusePcs == {"lock_acq", "lock_store", "lock_rel", "rd_tryread"}

C10_FuseFrame ==
    \A t \in Threads :
        (pc'[t] # pc[t] /\ (pc[t] \in FusePcs \/ pc'[t] \in FusePcs))
            => /\ object' = object
               /\ writer' = writer
               /\ guard' = guard
               /\ locked => (locked' /\ hist'.frozen = hist.frozen)

C10_FuseIdempotent ==
    /\ [](hist.fuseReturned => locked)
    /\ [](readers \subseteq {t \in Threads : pc[t] \in {"lock_store", "lock_rel"}})
    /\ [][C10_FuseFrame]_vars

\* After a lock() has returned, two more lock() calls have both stored the flag
\* again and hold inner shared together.
C10_Witness ==
    /\ hist.fuseReturned
    /\ Cardinality({t \in Threads : pc[t] = "lock_rel"}) >= 2

\* C11 as stated: once the flag is true no operation acquires inner, shared
\* or exclusive.
C11_NeverTouched ==
    [][locked => (readers' \subseteq readers /\ writer' \subseteq writer)]_vars

\* C11 amended: once the flag is true, a call that starts either returns at
\* once (is_locked, try_read, the fast path of try_write), goes to read()'s
\* try_read, or is lock() called directly; only lock(), and the try_write and
\* read calls that had passed their check before the flag was set, still
\* acquire inner, and such a try_write gives it back without a guard.
C11_Start ==
    \A t \in Threads :
        (locked /\ pc[t] = "idle" /\ pc'[t] # "idle")
            => \/ pc'[t] = "rd_tryread"
               \/ pc'[t] = "lock_acq" /\ caller'[t] = "none"

C11_Acquire ==
    \A t \in Threads :
        /\ (locked /\ t \in readers' \ readers) => pc[t] = "lock_acq"
        /\ (locked /\ t \in writer' \ writer)
               => (pc[t] = "tw_acq" /\ t \notin guard')

C11_OnlyLockTouchesInner ==
    /\ [][C11_Start]_vars
    /\ [][C11_Acquire]_vars
    /\ [](locked => guard = {})

\* With the flag true, a second lock() holds inner shared, or a try_write that
\* was past its fast path holds it exclusively.
C11_Witness ==
    /\ hist.fuseReturned
    /\ \E t \in Threads : pc[t] \in {"lock_store", "tw_recheck"}

\* C12: try_read never acquires or waits on inner, and a try_write whose
\* fast-path check sees the flag true returns None without acquiring it: each
\* can always take its step, which is its only one and leaves inner alone,
\* also while another thread holds a guard.
C12_CanAlwaysRun ==
    \A t \in Threads :
        CanCall(t) => /\ ENABLED TryRead(t)
                      /\ ENABLED TryWriteCheck(t)

C12_OneStep ==
    /\ ev'.op = "try_read"
         => (pc[ev'.t] = "idle" /\ readers' = readers /\ writer' = writer)
    /\ \A t \in Threads :
         (locked /\ pc[t] = "idle" /\ pc'[t] = "idle"
                 /\ ev'.t = t /\ ev'.op = "try_write")
             => (ev'.res = "None" /\ readers' = readers /\ writer' = writer)
    /\ \A t \in Threads :
         (pc[t] = "idle" /\ pc'[t] = "tw_acq") => ~locked

C12_NonBlocking ==
    /\ []C12_CanAlwaysRun
    /\ [][C12_OneStep]_vars

\* try_read has returned (None) in one thread while another holds a guard.
C12_Witness ==
    /\ ev.op = "try_read"
    /\ \E a \in guard : a # ev.t

\* C13: while a FusedRwLockGuard exists the flag is false, and a lock() issued
\* while the guard is held stays before its acquisition of inner: it cannot
\* store the flag until the guard has been dropped.
C13_NoFuseWhileWriting ==
    guard # {} =>
        /\ ~locked
        /\ \A t \in Threads :
             /\ pc[t] \notin {"lock_store", "lock_rel"}
             /\ pc[t] = "lock_acq" => ~ENABLED LockAcquire(t)

\* A lock() call is waiting while another thread holds the guard.
C13_Witness ==
    \E a \in guard : \E t \in Threads \ {a} : pc[t] = "lock_acq"

\* C14: a thread that try_write returned None to holds nothing of inner, and
\* inner is held exclusively exactly by the guard, from the moment try_write
\* returns Some until the guard is dropped (and, before that, by a call
\* between its acquisition and its return).
C14_NoLeak ==
    /\ (ev.op = "try_write" /\ ev.res = "None")
           => (ev.t \notin writer /\ ev.t \notin readers)
    /\ guard \subseteq writer
    /\ writer \subseteq guard \cup {t \in Threads : pc[t] \in {"tw_recheck", "tw_rel"}}
    /\ (ev.op = "drop" /\ ev.res = "guard") => ev.t \notin writer

\* try_write has returned None after the fuse and inner is free again while
\* another try_write is still on its way.
C14_Witness ==
    /\ ev.op = "try_write" /\ ev.res = "None"
    /\ writer = {}
    /\ \E u \in Threads : pc[u] = "tw_acq"

\* C15: some interleaving brings a try_write that saw the flag false on its
\* fast path to hold inner exclusively with the flag already true (the
\* witness); there the recheck sends it to the None branch, and no guard is
\* handed out.
C15_Recheck ==
    \A t \in Threads :
        (pc[t] = "tw_recheck" /\ locked /\ pc'[t] # pc[t])
            => (pc'[t] = "tw_rel" /\ guard' = guard)

C15_DoubleCheck ==
    /\ [][C15_Recheck]_vars
    /\ [](locked => guard = {})
    /\ [](\A t \in Threads : pc[t] = "tw_rel" => (locked /\ t \notin guard))

\* The race: inner is held exclusively by a try_write with the flag true.
C15_Witness ==
    \E t \in Threads : pc[t] = "tw_recheck" /\ locked /\ writer = {t}

\* C17: dropping a FusedRwLockGuard releases the exclusive lock on inner and
\* changes nothing else: flag and payload are as before the drop, and inner
\* is then free for another writer or for lock().
C17_Drop ==
    \A t \in guard \ guard' :
        /\ locked' = locked
        /\ object' = object
        /\ readers' = readers
        /\ refs' = refs
        /\ writer = {t}
        /\ writer' = {}

C17_Free ==
    (ev.op = "drop" /\ ev.res = "guard") =>
        \A u \in Threads :
            /\ pc[u] = "tw_acq" => ENABLED TryWriteAcquire(u)
            /\ pc[u] = "lock_acq" => ENABLED LockAcquire(u)

C17_DropFrame ==
    /\ [][C17_Drop]_vars
    /\ []C17_Free

\* A guard that wrote the payload has been dropped with a lock() waiting.
C17_Witness ==
    /\ ev.op = "drop" /\ ev.res = "guard"
    /\ stale # {}
    /\ \E u \in Threads : pc[u] = "lock_acq"

\* C18: the flag changes only in lock()'s store, from false to true, whether
\* lock() was called directly or by read(); every other step leaves it alone,
\* and try_read on an Open lock returns None and leaves it Open.
C18_Change ==
    locked' # locked =>
        /\ locked'
        /\ \E t \in Threads : pc[t] = "lock_store" /\ pc'[t] = "lock_rel"

C18_TryReadOpen ==
    ev.op = "try_read" => (ev.res = "None" <=> ~locked)

C18_OnlyLockFuses ==
    /\ [][C18_Change]_vars
    /\ []C18_TryReadOpen

\* try_read has returned None on a lock that a guard has written to.
C18_Witness ==
    /\ ev.op = "try_read" /\ ev.res = "None"
    /\ ~locked
    /\ stale # {}

\* C19: a thread that holds a guard and calls try_write(), lock() or read()
\* without dropping it never returns from the call: it stays at the
\* acquisition of inner, which its own guard keeps disabled, and keeps the
\* guard.
C19_Stuck ==
    \A t \in guard :
        pc[t] # "idle" => (pc'[t] = pc[t] /\ t \in guard')

C19_Waiting ==
    \A t \in guard :
        /\ pc[t] \in {"idle", "lock_acq", "tw_acq"}
        /\ pc[t] = "lock_acq" => ~ENABLED LockAcquire(t)
        /\ pc[t] = "tw_acq" => ~ENABLED TryWriteAcquire(t)

C19_NoReentrancy ==
    /\ [][C19_Stuck]_vars
    /\ []C19_Waiting

\* The owner of a guard is inside try_write again, at inner.write().
C19_Witness ==
    \E t \in guard : pc[t] = "tw_acq"

\* C16: with callers that drop every guard and call nothing on the lock while
\* owning one, and a scheduler fair to every thread, every call of lock(),
\* read() and try_write() returns, and every guard is dropped.
C16_Progress ==
    \A t \in Threads :
        /\ (pc[t] # "idle") ~> (pc[t] = "idle")
        /\ (t \in guard) ~> (t \notin guard)

\* One thread owns the guard while another waits in lock() or try_write().
C16_Witness ==
    \E a \in guard : \E b \in Threads \ {a} : pc[b] \in {"lock_acq", "tw_acq"}

=============================================================================
